---- MODULE Spec2Model ----
(***************************************************************************)
(* Model of the session object DDFreeSplitTool (src/ddFreeSplit.py) and of *)
(* the part of the host scene it reads and writes.                         *)
(*                                                                         *)
(* A scene node is referred to by its name, as in the source.  A name is a *)
(* sequence of tokens, so that name + "_split" is Append(name, "_split")   *)
(* and obj.endswith("_split") is a test of the last token.  The host makes *)
(* the name of a new node unique by appending or incrementing a number.    *)
(***************************************************************************)
EXTENDS Integers, Sequences, FiniteSets, TLC

VARIABLES
    scene,                  \* host: name -> node record, the nodes that exist
    hidden,                 \* host: names of the hidden nodes
    hist,                   \* host: names of the nodes with construction history
    cam,                    \* host: camera -> [ortho, width]
    optVar,                 \* host: optionVar splitPolyWithCurveOperation (0: unset)
    target_geo,             \* self.target_geo
    duplicated_geo,         \* self.duplicated_geo
    temp_plane,             \* self.temp_plane
    projection_curve,       \* self.projection_curve
    projection_curves,      \* self.projection_curves
    original_camera_state,  \* self.original_camera_state
    gui_window,             \* the tool window exists
    lastOp,                 \* the handler that ran last, how it ended, its inputs
    trace                   \* the host calls the last handler issued, in order

vars == <<scene, hidden, hist, cam, optVar, target_geo, duplicated_geo,
          temp_plane, projection_curve, projection_curves, original_camera_state,
          gui_window, lastOp, trace>>

host == <<scene, hidden, hist, cam, optVar>>
session == <<target_geo, duplicated_geo, temp_plane, projection_curve,
             projection_curves, original_camera_state>>

----------------------------------------------------------------------------
(* Bounds of the model *)

MaxMade == 4        \* nodes made by the handlers that exist at one time
MaxStrokes == 2     \* paint strokes that exist at one time

----------------------------------------------------------------------------
(* Names and nodes *)

None == << >>

NumTok == <<"1", "2", "3", "4", "5", "6", "7", "8", "9">>
PadTok == <<"01", "02", "03", "04", "05", "06", "07", "08", "09">>

Cameras == {"persp"}
NoPanel == "none"

Node(k, o, p, b) == [kind |-> k, origin |-> o, parent |-> p, bbox |-> b]

\* cmds.objExists(n)
ObjExists(sc, n) == n \in DOMAIN sc

\* obj.endswith("_split")
EndsWithSplit(n) == Len(n) > 0 /\ n[Len(n)] = "_split"

\* the name the host gives a node asked to be called n
UniqueName(sc, n) ==
    IF n \notin DOMAIN sc THEN n
    ELSE LET free == {k \in 1..Len(NumTok) : Append(n, NumTok[k]) \notin DOMAIN sc}
             k == CHOOSE i \in free : \A j \in free : i <= j
         IN  Append(n, NumTok[k])

\* the name the host gives a node asked to be called base + toks[from]
NumberedName(sc, base, toks, from) ==
    LET free == {k \in from..Len(toks) : <<base, toks[k]>> \notin DOMAIN sc}
        k == CHOOSE i \in free : \A j \in free : i <= j
    IN  <<base, toks[k]>>

OfKind(sc, k) == {n \in DOMAIN sc : sc[n].kind = k}
OfOrigin(sc, o) == {n \in DOMAIN sc : sc[n].origin = o}

\* a list of the names in S, in the host's order
RECURSIVE SeqOfSet(_)
SeqOfSet(S) ==
    IF S = {} THEN << >>
    ELSE LET n == CHOOSE x \in S : TRUE
         IN  <<n>> \o SeqOfSet(S \ {n})

\* cmds.ls(type="stroke"): stroke shapes are listed in the order of their numbers
StrokeName(k) == <<"strokeShapeDefaultPaint", NumTok[k]>>
StrokeXfName(k) == <<"strokeDefaultPaint", NumTok[k]>>
RECURSIVE StrokesFrom(_, _)
StrokesFrom(sc, k) ==
    IF k > Len(NumTok) THEN << >>
    ELSE (IF StrokeName(k) \in DOMAIN sc THEN <<StrokeName(k)>> ELSE << >>)
         \o StrokesFrom(sc, k + 1)
LsStrokes(sc) == StrokesFrom(sc, 1)

\* cmds.ls(type="curveVarGroup")
LsCurveVarGroups(sc) == SeqOfSet(OfKind(sc, "group"))

\* cmds.ls(transforms=True): every node but the stroke shapes
LsTransforms(sc) == SeqOfSet({n \in DOMAIN sc : sc[n].kind # "stroke"})

Range(s) == {s[i] : i \in 1..Len(s)}

\* the names of a list that are in S, in the order of the list
RECURSIVE Filter(_, _)
Filter(names, S) ==
    IF names = << >> THEN << >>
    ELSE (IF Head(names) \in S THEN <<Head(names)>> ELSE << >>) \o Filter(Tail(names), S)

\* the nodes a handler of this session made
Made(sc) == {n \in DOMAIN sc : sc[n].origin \in {"setup", "paint", "convert"}}

Ev(o, a) == [op |-> o, arg |-> a]
\* what is remembered of the last handler: its name, how it ended ("ok",
\* "warned": blocked by its precondition, "raised"), the checkbox it read and
\* the names it was given
Op(n, r, f, a) == [name |-> n, res |-> r, flag |-> f, arg |-> a]

----------------------------------------------------------------------------
(* The scene the tool is launched in: one mesh, the default camera *)

CubeBBox == <<-2, -4, -2, 2, 4, 2>>
\* cmds.polyPlane(width=w, height=w, axis=(0, 1, 0)): a plane w by w
PlaneBBox(w) == <<-(w \div 2), 0, -(w \div 2), w \div 2, 0, w \div 2>>
CircleBBox == <<-1, 0, -1, 1, 0, 1>>
NoBBox == <<0, 0, 0, 0, 0, 0>>

Widths == {10}

NoCameraState == [camera |-> "", orthographic |-> FALSE, orthographicWidth |-> 0]

\* the camera of the view before the tool touches it: a perspective view
InitialCamera == [ortho |-> FALSE, width |-> 30]

Init ==
    /\ scene = (<<"pCube">> :> Node("mesh", "pre", None, CubeBBox))
    /\ hidden = {}
    /\ hist = {}
    /\ cam = [c \in Cameras |-> InitialCamera]
    /\ optVar = 0
    /\ target_geo = None
    /\ duplicated_geo = None
    /\ temp_plane = None
    /\ projection_curve = None
    /\ projection_curves = << >>
    /\ original_camera_state = NoCameraState
    /\ gui_window = TRUE
    /\ lastOp = Op("show_tool", "ok", FALSE, << >>)
    /\ trace = << >>

----------------------------------------------------------------------------
(* What the user does between two handlers *)

\* the user draws one Paint Effects stroke: a stroke shape under its transform
UserPaint ==
    /\ Cardinality(OfKind(scene, "stroke")) < MaxStrokes
    /\ LET free == {k \in 1..Len(NumTok) :
                       StrokeName(k) \notin DOMAIN scene /\ StrokeXfName(k) \notin DOMAIN scene}
           k == CHOOSE i \in free : \A j \in free : i <= j
       IN  scene' = scene @@ (StrokeXfName(k) :> Node("strokeXf", "user", None, NoBBox))
                          @@ (StrokeName(k) :> Node("stroke", "user", StrokeXfName(k), NoBBox))
    /\ lastOp' = Op("user", "ok", FALSE, << >>)
    /\ trace' = << >>
    /\ UNCHANGED <<hidden, hist, cam, optVar, session, gui_window>>

\* the user zooms an orthographic view: the camera's orthographic width changes
UserZoom ==
    /\ \E c \in Cameras, w \in Widths :
          /\ cam[c].ortho
          /\ cam[c].width # w
          /\ cam' = [cam EXCEPT ![c].width = w]
    /\ lastOp' = Op("user", "ok", FALSE, << >>)
    /\ trace' = << >>
    /\ UNCHANGED <<scene, hidden, hist, optVar, session, gui_window>>

----------------------------------------------------------------------------
(* setup_geometry *)

\* what the user may have selected: no, one or two geometry objects
Selections(sc) ==
    LET geo == OfKind(sc, "mesh")
    IN  {<< >>} \cup {<<a>> : a \in geo}
                \cup {s \in {<<a, b>> : a, b \in geo} : s[1] # s[2]}

\* cmds.duplicate(target, name=target + "_split")[0]
DuplicateName(sc, t) == UniqueName(sc, Append(t, "_split"))

\* a slip: cmds.hide(selection) in place of cmds.hide(self.target_geo)
HideSelection(sel) == Range(sel)

\* the nodes cmds.hide(self.target_geo) hides
HideTargets(sel) == {sel[1]}

\* if not selection
NoSelection(sel) == sel = << >>

\* a slip: the blocked handler returns without a word
SetupSilent == << >>

\* what the blocked handler tells the user
SetupWarning == <<Ev("warning", None)>>

\* sel: cmds.ls(selection=True, type="transform") when the button is pressed
setup_geometry(sel) ==
        IF NoSelection(sel)
        THEN /\ lastOp' = Op("setup_geometry", "warned", FALSE, sel)
             /\ trace' = SetupWarning
             /\ UNCHANGED <<host, session, gui_window>>
        ELSE LET t == sel[1]
                 d == DuplicateName(scene, t)
             IN  /\ Cardinality(Made(scene)) < MaxMade
                 /\ target_geo' = t
                 /\ duplicated_geo' = d
                 /\ scene' = scene @@ (d :> [scene[t] EXCEPT !.origin = "setup"])
                 /\ hidden' = (hidden \cup (IF t \in hidden THEN {d} ELSE {}))
                                 \cup HideTargets(sel)
                 /\ hist' = hist
                 /\ lastOp' = Op("setup_geometry", "ok", FALSE, sel)
                 /\ trace' = <<Ev("duplicate", t), Ev("hide", t)>>
                 /\ UNCHANGED <<cam, optVar, temp_plane, projection_curve,
                                projection_curves, original_camera_state, gui_window>>

----------------------------------------------------------------------------
(* activate_paint_tool: setup_orthographic_camera, create_temporary_plane,   *)
(* activate_paint_effects                                                   *)

Max3(a, b, c) ==
    IF a >= b /\ a >= c THEN a ELSE IF b >= c THEN b ELSE c

\* max(bbox[3] - bbox[0], bbox[4] - bbox[1], bbox[5] - bbox[2]) * 1.5
OrthoWidth(bbox) ==
    (Max3(bbox[4] - bbox[1], bbox[5] - bbox[2], bbox[6] - bbox[3]) * 3) \div 2

\* a slip: the attributes are stored after the switch to orthographic
SnapshotAfterSwitch(cm, c) ==
    [camera |-> c, orthographic |-> TRUE, orthographicWidth |-> cm[c].width]

\* the dictionary stored in self.original_camera_state
CameraSnapshot(cm, c) ==
    [camera |-> c, orthographic |-> cm[c].ortho, orthographicWidth |-> cm[c].width]

\* the camera attributes after the switch to orthographic
SwitchToOrtho(cm, c, w) == [cm EXCEPT ![c] = [ortho |-> TRUE, width |-> w]]

\* a slip: activate_paint_tool without its guard
NoTargetGeoUnchecked(t) == FALSE

\* the guard of activate_paint_tool: not self.target_geo
NoTargetGeo(t) == t = None

\* c is the camera of the model panel that has the focus, NoPanel when no model
\* panel is visible (cmds.modelPanel(None, ...) raises)
activate_paint_tool(c) ==
    IF NoTargetGeo(target_geo)
    THEN /\ lastOp' = Op("activate_paint_tool", "warned", FALSE, << >>)
         /\ trace' = <<Ev("warning", None)>>
         /\ UNCHANGED <<host, session, gui_window>>
    ELSE IF c = NoPanel
    THEN /\ lastOp' = Op("activate_paint_tool", "raised", FALSE, << >>)
         /\ trace' = << >>
         /\ UNCHANGED <<host, session, gui_window>>
    ELSE IF ~ObjExists(scene, target_geo)
    THEN \* cmds.exactWorldBoundingBox raises after the snapshot is stored
         /\ original_camera_state' = CameraSnapshot(cam, c)
         /\ lastOp' = Op("activate_paint_tool", "raised", FALSE, << >>)
         /\ trace' = <<Ev("getAttr", <<c, "orthographic">>),
                       Ev("getAttr", <<c, "orthographicWidth">>)>>
         /\ UNCHANGED <<host, target_geo, duplicated_geo, temp_plane,
                        projection_curve, projection_curves, gui_window>>
    ELSE LET w == OrthoWidth(scene[target_geo].bbox)
             p == UniqueName(scene, <<"ddSplit_tempPlane">>)
             \* cmds.getAttr(camera_shape + ".orthographicWidth"), after the switch
             ortho_width == SwitchToOrtho(cam, c, w)[c].width
         IN  /\ Cardinality(Made(scene)) < MaxMade
             /\ original_camera_state' = CameraSnapshot(cam, c)
             /\ cam' = SwitchToOrtho(cam, c, w)
             /\ scene' = scene @@ (p :> Node("mesh", "paint", <<c>>, PlaneBBox(ortho_width)))
             /\ temp_plane' = p
             /\ hidden' = hidden \cup {p}
             /\ lastOp' = Op("activate_paint_tool", "ok", FALSE, << >>)
             /\ trace' = <<Ev("getAttr", <<c, "orthographic">>),
                           Ev("getAttr", <<c, "orthographicWidth">>),
                           Ev("setAttr", <<c, "orthographic">>),
                           Ev("setAttr", <<c, "orthographicWidth">>),
                           Ev("getAttr", <<c, "orthographicWidth">>),
                           Ev("polyPlane", p),
                           Ev("parent", p),
                           Ev("select", p)>>
             /\ UNCHANGED <<hist, optVar, target_geo, duplicated_geo,
                            projection_curve, projection_curves, gui_window>>

----------------------------------------------------------------------------
(* convert_and_project *)

\* the first loop: one closed reference curve per valid stroke.  st is
\* [sc, curves, tr]; i counts the strokes from 0 as enumerate does; bad
\* is the set of indices whose stroke fails the validity test
RECURSIVE CircleLoop(_, _, _, _)
CircleLoop(st, strokes, i, bad) ==
    IF i >= Len(strokes) THEN st
    ELSE IF i \in bad
    THEN CircleLoop([st EXCEPT !.tr = Append(@, Ev("warning", strokes[i + 1]))],
                    strokes, i + 1, bad)
    ELSE LET c == NumberedName(st.sc, "projCurve_", PadTok, i + 1)
         IN  CircleLoop([sc |-> st.sc @@ (c :> Node("curve", "convert", None, CircleBBox)),
                         curves |-> Append(st.curves, c),
                         tr |-> st.tr \o <<Ev("circle", c), Ev("connectAttr", strokes[i + 1])>>],
                        strokes, i + 1, bad)

\* cmds.polyProjectCurve(curve, geo, ...) raises when geo is None or no node
ProjectionRaises(sc, geo) == geo = None \/ ~ObjExists(sc, geo)

\* curve_samples, tolerance (in thousandths), points_on_edges, automatic as
\* they are set before the controls are queried
DefaultSettings == <<50, 1, FALSE, TRUE>>

\* what the four controls of the window may hold
UISettings == {DefaultSettings, <<20, 5, TRUE, FALSE>>}

\* a slip: the first two controls are looked up where they always exist
FirstFailingThird(exists) == IF exists THEN 5 ELSE 3

\* the position of the first control whose query raises: the four controls
\* belong to the window, so either all of them exist or none does
FirstFailing(exists) == IF exists THEN 5 ELSE 1

\* the inner try: the controls are queried in order and each value is
\* assigned as it is read; the first query that raises ends the block
QuerySettings(ui, failAt) ==
    [k \in 1..4 |-> IF k < failAt THEN ui[k] ELSE DefaultSettings[k]]

\* the second loop, inside the try: one projection call per reference curve;
\* the first call that raises ends the loop
RECURSIVE ProjectLoop(_, _, _, _, _)
ProjectLoop(st, curves, i, geo, settings) ==
    IF i > Len(curves) THEN st
    ELSE IF ProjectionRaises(st.sc, geo)
    THEN [st EXCEPT !.tr = @ \o <<Ev("polyProjectCurve", <<curves[i], settings>>),
                                   Ev("warning", None)>>]
    ELSE LET g == NumberedName(st.sc, "curveVarGroup", NumTok, 1)
         IN  ProjectLoop([sc |-> st.sc @@ (g :> Node("group", "convert", None, st.sc[geo].bbox)),
                          curves |-> st.curves,
                          tr |-> st.tr \o <<Ev("polyProjectCurve", <<curves[i], settings>>)>>],
                         curves, i + 1, geo, settings)

ConvertResult(bad, ui) ==
    LET strokes == LsStrokes(scene)
        st0 == [sc |-> scene, curves |-> << >>, tr |-> << >>]
        st1 == CircleLoop(st0, strokes, 0, bad)
        settings == QuerySettings(ui, FirstFailing(gui_window))
    IN  IF st1.curves # << >>
        THEN ProjectLoop(st1, st1.curves, 1, duplicated_geo, settings)
        ELSE [st1 EXCEPT !.tr = Append(@, Ev("warning", None))]

\* a slip: convert_and_project without its guard
NoStrokesUnchecked(strokes) == FALSE

\* the guard of convert_and_project: not strokes
NoStrokes(strokes) == strokes = << >>

\* bad: the positions in cmds.ls(type="stroke") of the strokes that are invalid;
\* ui: what the controls of the projection settings hold
convert_and_project(bad, ui) ==
    LET strokes == LsStrokes(scene)
    IN  IF NoStrokes(strokes)
        THEN /\ bad = {}
             /\ lastOp' = Op("convert_and_project", "warned", FALSE, << >>)
             /\ trace' = <<Ev("warning", None)>>
             /\ UNCHANGED <<host, session, gui_window>>
        ELSE /\ bad \subseteq 0..(Len(strokes) - 1)
             /\ \E r \in {ConvertResult(bad, ui)} :
                 /\ Cardinality(Made(r.sc)) <= MaxMade
                 /\ scene' = r.sc
                 /\ projection_curves' = r.curves
                 /\ projection_curve' =
                        IF r.curves # << >> THEN r.curves[1] ELSE projection_curve
                 /\ lastOp' = Op("convert_and_project", "ok", FALSE,
                                 Filter(strokes, {strokes[i + 1] : i \in bad}))
                 /\ trace' = r.tr
                 /\ UNCHANGED <<hidden, hist, cam, optVar, target_geo, duplicated_geo,
                                temp_plane, original_camera_state, gui_window>>

----------------------------------------------------------------------------
(* execute_split *)

\* cmds.checkBox(name, query=True, value=True): the box as the user left it,
\* the default when the control does not exist
CheckBox(exists, value, default) == IF exists THEN value ELSE default

\* a slip: the two values of the option the other way round
OperationValueSwapped(detach_edges) == IF detach_edges THEN 1 ELSE 2

\* 1 = keep pieces together, 2 = detach
OperationValue(detach_edges) == IF detach_edges THEN 2 ELSE 1

\* cmds.select(names, replace=True)
SelectEach(names) == [i \in 1..Len(names) |-> Ev("select", names[i])]

\* a slip: execute_split without its guard
NoCurveGroupsUnchecked(curve_groups) == FALSE

\* the guard of execute_split: not curve_groups
NoCurveGroups(curve_groups) == curve_groups = << >>

\* box: the state of the "detachEdges" checkbox
execute_split(box) ==
    LET curve_groups == LsCurveVarGroups(scene)
        detach_edges == CheckBox(gui_window, box, TRUE)
    IN  IF NoCurveGroups(curve_groups)
        THEN /\ box = TRUE
             /\ lastOp' = Op("execute_split", "warned", FALSE, << >>)
             /\ trace' = <<Ev("warning", None)>>
             /\ UNCHANGED <<host, session, gui_window>>
        ELSE /\ (~gui_window => box = TRUE)
             /\ optVar' = OperationValue(detach_edges)
             /\ IF duplicated_geo = None \/ ~ObjExists(scene, duplicated_geo)
                THEN \* cmds.select(self.duplicated_geo, add=True) raises
                     /\ hist' = hist
                     /\ lastOp' = Op("execute_split", "raised", detach_edges, << >>)
                     /\ trace' = <<Ev("optionVar", None)>> \o SelectEach(curve_groups)
                                   \o <<Ev("warning", None)>>
                ELSE /\ hist' = hist \cup {duplicated_geo}
                     /\ lastOp' = Op("execute_split", "ok", detach_edges, << >>)
                     /\ trace' = <<Ev("optionVar", None)>> \o SelectEach(curve_groups)
                                   \o <<Ev("select", duplicated_geo),
                                       Ev("performSplitMeshWithProjectedCurve", duplicated_geo)>>
             /\ UNCHANGED <<scene, hidden, cam, session, gui_window>>

----------------------------------------------------------------------------
(* Deleting nodes.  st is [sc, tr]: the scene and the calls issued so far *)

Children(sc, n) == {m \in DOMAIN sc : sc[m].parent = n}

\* cmds.delete(n): n goes with the nodes under it; with cascade, the host also
\* removes the transform that the deletion of its only shape left empty
DeleteNode(sc, n, cascade) ==
    LET p == IF n \in DOMAIN sc THEN sc[n].parent ELSE None
        gone == {n} \cup Children(sc, n)
                    \cup (IF cascade /\ p \in DOMAIN sc /\ Children(sc, p) = {n}
                          THEN {p} ELSE {})
    IN  [m \in (DOMAIN sc) \ gone |-> sc[m]]

\* cmds.delete(n), issued without looking
IssueDelete(st, n, cascade) ==
    [sc |-> DeleteNode(st.sc, n, cascade),
     tr |-> Append(st.tr, Ev(IF n \in DOMAIN st.sc THEN "delete" ELSE "deleteMissing", n))]

\* a slip: cmds.delete(n) without its if
UncheckedDelete(st, n, cascade) == IssueDelete(st, n, cascade)

\* if cmds.objExists(n): cmds.delete(n)
CheckedDelete(st, n, cascade) ==
    LET st1 == [st EXCEPT !.tr = Append(@, Ev("objExists", n))]
    IN  IF ObjExists(st.sc, n) THEN IssueDelete(st1, n, cascade) ELSE st1

\* for n in names: if cmds.objExists(n): cmds.delete(n)
RECURSIVE DeleteEach(_, _, _)
DeleteEach(st, names, cascade) ==
    IF names = << >> THEN st
    ELSE DeleteEach(CheckedDelete(st, Head(names), cascade), Tail(names), cascade)

\* if ref and cmds.objExists(ref): cmds.delete(ref)
DeleteRef(st, ref) ==
    IF ref = None THEN st ELSE CheckedDelete(st, ref, FALSE)

----------------------------------------------------------------------------
(* restore_camera_state *)

\* a slip: the orthographic flag is put back, the width is not
RestoreFlagOnly(cm, snap) ==
    IF snap = NoCameraState THEN cm
    ELSE [cm EXCEPT ![snap.camera].ortho = snap.orthographic]

RestoreCameraState(cm, snap) ==
    IF snap = NoCameraState \/ snap.camera \notin DOMAIN cm THEN cm
    ELSE [cm EXCEPT ![snap.camera] =
             [ortho |-> snap.orthographic, width |-> snap.orthographicWidth]]

RestoreTrace(snap) ==
    IF snap = NoCameraState THEN << >>
    ELSE <<Ev("setAttr", <<snap.camera, "orthographic">>),
           Ev("setAttr", <<snap.camera, "orthographicWidth">>)>>

----------------------------------------------------------------------------
(* finish_and_cleanup *)

\* [obj for obj in cmds.ls(transforms=True) if obj.endswith("_split")]
SplitGroups(sc) == Filter(LsTransforms(sc), {n \in DOMAIN sc : EndsWithSplit(n)})

\* the parents of the stroke shapes
RECURSIVE PfxTransforms(_, _)
PfxTransforms(sc, shapes) ==
    IF shapes = << >> THEN << >>
    ELSE (IF sc[Head(shapes)].parent # None THEN <<sc[Head(shapes)].parent>> ELSE << >>)
         \o PfxTransforms(sc, Tail(shapes))

\* the reference curves Finish is to delete
FinishCurves(sc, curves, curve) ==
    IF curves # << >> THEN Filter(curves, DOMAIN sc)
    ELSE IF curve # None /\ ObjExists(sc, curve) THEN <<curve>>
    ELSE << >>

\* a slip: the "keepHistory" box is read and not looked at
FinishGroupsAlways(sc, keep_projected_curves) == LsCurveVarGroups(sc)

\* the curve-variation groups Finish is to delete
FinishGroups(sc, keep_projected_curves) ==
    IF keep_projected_curves THEN << >> ELSE LsCurveVarGroups(sc)

\* delete(duplicated_geo, constructionHistory=True), under its existence check
DeleteHistory(st, h, geo) ==
    IF geo # None /\ ObjExists(st.sc, geo)
    THEN [st |-> [st EXCEPT !.tr = @ \o <<Ev("objExists", geo), Ev("deleteHistory", geo)>>],
          hist |-> h \ {geo}]
    ELSE [st |-> st, hist |-> h]

\* a slip: Finish shows the original again, as Cancel does
FinishShowsTarget(sc, hid, t) == (hid \cap DOMAIN sc) \ {t}

\* the hidden nodes after Finish: no node is shown or hidden, the deleted
\* ones are gone ("DON'T unhide original geometry - leave it hidden")
FinishHidden(sc, hid, t) == hid \cap DOMAIN sc

\* a slip: the temporary plane is deleted before the curve-variation groups
FinishDeletesPlaneFirst(st0, h, keep_projected_curves, cascade) ==
    LET sc == st0.sc
        a == DeleteHistory(st0, h, duplicated_geo)
        b == DeleteEach(a.st, SplitGroups(sc), FALSE)
        c == DeleteEach(b, LsStrokes(sc), cascade)
        d == DeleteEach(c, PfxTransforms(sc, LsStrokes(sc)), FALSE)
        e == DeleteEach(d, FinishCurves(sc, projection_curves, projection_curve), FALSE)
        f == DeleteRef(e, temp_plane)
        g == DeleteEach(f, FinishGroups(sc, keep_projected_curves), FALSE)
    IN  [st |-> g, hist |-> a.hist]

\* the deletions of Finish, in the order of the source
FinishDeletes(st0, h, keep_projected_curves, cascade) ==
    LET sc == st0.sc
        split_groups == SplitGroups(sc)
        pfx_objects == LsStrokes(sc)
        pfx_transforms == PfxTransforms(sc, pfx_objects)
        curves == FinishCurves(sc, projection_curves, projection_curve)
        groups == FinishGroups(sc, keep_projected_curves)
        a == DeleteHistory(st0, h, duplicated_geo)
        b == DeleteEach(a.st, split_groups, FALSE)
        c == DeleteEach(b, pfx_objects, cascade)
        d == DeleteEach(c, pfx_transforms, FALSE)
        e == DeleteEach(d, curves, FALSE)
        f == DeleteEach(e, groups, FALSE)
        g == DeleteRef(f, temp_plane)
    IN  [st |-> g, hist |-> a.hist]

\* box: the state of the "keepHistory" checkbox; cascade: whether the host
\* removes a stroke's transform together with its shape
finish_and_cleanup(box, cascade) ==
    LET keep == CheckBox(gui_window, box, FALSE)
        st0 == [sc |-> scene, tr |-> RestoreTrace(original_camera_state)]
    IN  /\ (~gui_window => box = FALSE)
        /\ (LsStrokes(scene) = << >> => cascade = FALSE)
        /\ \E r \in {FinishDeletes(st0, hist, keep, cascade)} :
            /\ cam' = RestoreCameraState(cam, original_camera_state)
            /\ scene' = r.st.sc
            /\ hidden' = FinishHidden(r.st.sc, hidden, target_geo)
            /\ hist' = r.hist \cap DOMAIN r.st.sc
            /\ gui_window' = FALSE
            /\ lastOp' = Op("finish_and_cleanup", "ok", keep, << >>)
            /\ trace' = r.st.tr
            /\ UNCHANGED <<optVar, session>>

----------------------------------------------------------------------------
(* cancel_operation *)

\* if self.target_geo and cmds.objExists(self.target_geo): cmds.showHidden(...)
ShowTarget(sc, hid, t) ==
    IF t # None /\ ObjExists(sc, t) THEN hid \ {t} ELSE hid

CancelDeletes(st0) ==
    LET a == DeleteRef(st0, duplicated_geo)
    IN  DeleteRef(a, temp_plane)

cancel_operation ==
    \E r \in {CancelDeletes([sc |-> scene, tr |-> RestoreTrace(original_camera_state)])} :
        /\ cam' = RestoreCameraState(cam, original_camera_state)
        /\ scene' = r.sc
        /\ hidden' = ShowTarget(r.sc, hidden \cap DOMAIN r.sc, target_geo)
        /\ hist' = hist \cap DOMAIN r.sc
        /\ gui_window' = FALSE
        /\ lastOp' = Op("cancel_operation", "ok", FALSE, << >>)
        /\ trace' = r.tr
        /\ UNCHANGED <<optVar, session>>

(* The buttons of the window call the handlers.  finish_and_cleanup and    *)
(* cancel_operation delete the window; they can still be called again on   *)
(* the session object, the other handlers are reached through the window.  *)

Next ==
    \/ gui_window /\ UserPaint
    \/ gui_window /\ UserZoom
    \/ gui_window /\ \E sel \in Selections(scene) : setup_geometry(sel)
    \/ gui_window /\ \E c \in Cameras \cup {NoPanel} : activate_paint_tool(c)
    \/ gui_window /\ \E bad \in SUBSET (0..(MaxStrokes - 1)), ui \in UISettings :
                        convert_and_project(bad, ui)
    \/ gui_window /\ \E box \in BOOLEAN : execute_split(box)
    \/ \E box, cascade \in BOOLEAN : finish_and_cleanup(box, cascade)
    \/ cancel_operation

Spec == Init /\ [][Next]_vars

(* show_tool returns the session object, so a script can call the handlers  *)
(* that read the controls of the window after the window is gone.  No       *)
(* control is read then; ui is what the controls held last, taken to differ *)
(* from the defaults.                                                       *)

NextScript ==
    \/ Next
    \/ ~gui_window /\ \E bad \in SUBSET (0..(MaxStrokes - 1)),
                         ui \in UISettings \ {DefaultSettings} :
                        convert_and_project(bad, ui)
    \/ ~gui_window /\ \E box \in BOOLEAN : execute_split(box)

SpecScript == Init /\ [][NextScript]_vars

(* The tool launched in a scene that already holds what Finish looks for by *)
(* name or by type: a transform whose name ends in "_split", a              *)
(* curve-variation group and a curve named as the reference curves are.     *)

LeftInScene ==
    (<<"old", "_split">> :> Node("transform", "pre", None, NoBBox))
        @@ (<<"curveVarGroup", "1">> :> Node("group", "pre", None, NoBBox))
        @@ (<<"projCurve_", "01">> :> Node("curve", "pre", None, CircleBBox))

InitScene ==
    /\ scene = (<<"pCube">> :> Node("mesh", "pre", None, CubeBBox)) @@ LeftInScene
    /\ hidden = {}
    /\ hist = {}
    /\ cam = [c \in Cameras |-> InitialCamera]
    /\ optVar = 0
    /\ target_geo = None
    /\ duplicated_geo = None
    /\ temp_plane = None
    /\ projection_curve = None
    /\ projection_curves = << >>
    /\ original_camera_state = NoCameraState
    /\ gui_window = TRUE
    /\ lastOp = Op("show_tool", "ok", FALSE, << >>)
    /\ trace = << >>

SpecScene == InitScene /\ [][Next]_vars

----------------------------------------------------------------------------
(* The claims *)

Count(tr, o) == Cardinality({i \in 1..Len(tr) : tr[i].op = o})
Is(o) == lastOp.name = o
Was(o) == lastOp'.name = o
CameraOf(snap) == [ortho |-> snap.orthographic, width |-> snap.orthographicWidth]

\* C1: after Cancel in a session in which Setup has succeeded, no node made by
\* the session is left in the scene: no duplicated geometry, no temporary
\* plane, no reference curve, no curve-variation group
C1_CancelLeavesNothing ==
    (Is("cancel_operation") /\ target_geo # None) => Made(scene) = {}

\* C2: after Cancel in a session in which Paint Activation has stored its
\* snapshot, the camera's orthographic flag and width are the stored ones
C2_CancelRestoresCamera ==
    (Is("cancel_operation") /\ original_camera_state # NoCameraState)
        => cam[original_camera_state.camera] = CameraOf(original_camera_state)

\* Cancel has put back a perspective camera that Paint Activation had made
\* orthographic
C2_Witness ==
    /\ Is("cancel_operation")
    /\ original_camera_state # NoCameraState
    /\ ~original_camera_state.orthographic
    /\ Count(trace, "setAttr") = 2
    /\ cam["persp"] = [ortho |-> FALSE, width |-> 30]

\* C3: after Finish the scene holds no temporary plane of the session, no
\* paint stroke, no reference curve of any Conversion, and no duplicated
\* geometry with construction history
C3_FinishRemovesAll ==
    Is("finish_and_cleanup")
        => /\ OfOrigin(scene, "paint") = {}
           /\ OfKind(scene, "stroke") = {}
           /\ {n \in OfKind(scene, "curve") : scene[n].origin = "convert"} = {}
           /\ OfOrigin(scene, "setup") \cap hist = {}

\* C4: a Finish that reads "keep projected curves" unset leaves no
\* curve-variation group; one that reads it set leaves the groups as they
\* were, all of them made by the session's Conversion
C4_FinishGroups ==
    [][Was("finish_and_cleanup")
         => IF lastOp'.flag
            THEN /\ OfKind(scene', "group") = OfKind(scene, "group")
                 /\ \A g \in OfKind(scene', "group") : scene'[g].origin = "convert"
            ELSE OfKind(scene', "group") = {}]_vars

\* Finish has kept a group
C4_WitnessKept ==
    Is("finish_and_cleanup") /\ lastOp.flag /\ OfKind(scene, "group") # {}

\* C5: one Convert & Project over N valid strokes makes N reference curves and
\* issues N projection calls
ValidStrokes == Cardinality(OfKind(scene, "stroke")) - Len(lastOp.arg)
C5_OnePerValidStroke ==
    (Is("convert_and_project") /\ lastOp.res = "ok")
        => /\ Count(trace, "circle") = ValidStrokes
           /\ Count(trace, "polyProjectCurve") = ValidStrokes

\* C6: Setup with nothing selected warns once and changes neither the scene
\* nor the session
C6_SetupNoSelection ==
    [][(Was("setup_geometry") /\ lastOp'.arg = << >>)
         => /\ UNCHANGED <<host, session>>
            /\ Count(trace', "warning") = 1
            /\ Len(trace') = 1]_vars

\* Setup was blocked in a session that had made nothing
C6_Witness ==
    /\ Is("setup_geometry") /\ lastOp.arg = << >> /\ lastOp.res = "warned"
    /\ target_geo = None /\ duplicated_geo = None

\* C7: Setup with a selection makes one new node, the duplicate, hides the
\* first selected node and no other node of the scene, and stores both names
C7_SetupDuplicatesAndHides ==
    [][(Was("setup_geometry") /\ lastOp'.arg # << >>)
         => /\ target_geo' = lastOp'.arg[1]
            /\ duplicated_geo' \notin DOMAIN scene
            /\ DOMAIN scene' = DOMAIN scene \cup {duplicated_geo'}
            /\ scene'[duplicated_geo'].origin = "setup"
            /\ target_geo' \in hidden'
            /\ \A n \in DOMAIN scene \ {target_geo'} : n \in hidden' <=> n \in hidden]_vars

\* Setup ran with two nodes selected, the second one visible
C7_Witness ==
    /\ Is("setup_geometry") /\ lastOp.res = "ok"
    /\ Len(lastOp.arg) = 2
    /\ lastOp.arg[2] \in DOMAIN scene /\ lastOp.arg[2] \notin hidden
    /\ duplicated_geo \in DOMAIN scene

\* C8: every node made by Setup, Paint Activation or Conversion that exists
\* is referenced by the session
Referenced == {duplicated_geo, temp_plane} \cup Range(projection_curves)
C8_MadeIsReferenced == Made(scene) \subseteq Referenced

\* C9: no delete is issued on a node that does not exist, and every delete
\* comes right after the existence check of the node it deletes
C9_DeletesAreChecked ==
    \A i \in 1..Len(trace) :
        /\ trace[i].op # "deleteMissing"
        /\ trace[i].op = "delete"
             => i > 1 /\ trace[i - 1] = Ev("objExists", trace[i].arg)

\* Cancel found the duplicated geometry and the temporary plane already gone
C9_Witness ==
    /\ Is("cancel_operation")
    /\ duplicated_geo # None /\ temp_plane # None
    /\ Count(trace, "objExists") = 2
    /\ Count(trace, "delete") = 0

\* C10: Activate Paint in a session in which no Setup has succeeded warns and
\* changes nothing: no camera attribute is read or set, no snapshot is
\* stored, no plane is made
C10_ActivateBlocked ==
    [][(Was("activate_paint_tool") /\ target_geo = None)
         => /\ lastOp'.res = "warned"
            /\ UNCHANGED <<host, session>>
            /\ Count(trace', "warning") = 1
            /\ Len(trace') = 1]_vars

\* Activate Paint was blocked
C10_Witness ==
    /\ Is("activate_paint_tool") /\ lastOp.res = "warned"
    /\ target_geo = None /\ original_camera_state = NoCameraState
    /\ temp_plane = None

\* what a blocked handler does: one warning, nothing else
Blocked ==
    /\ lastOp'.res = "warned"
    /\ UNCHANGED <<host, session>>
    /\ trace' = <<Ev("warning", None)>>

\* C11: Convert & Project with no paint stroke in the scene, and Execute
\* Split with no curve-variation group in the scene, warn and leave scene,
\* tool option and session as they were: no curve is made, the list of
\* projection curves is not reset, no operator is invoked
C11_StagesBlocked ==
    [][/\ (Was("convert_and_project") /\ OfKind(scene, "stroke") = {}) => Blocked
       /\ (Was("execute_split") /\ OfKind(scene, "group") = {}) => Blocked]_vars

\* Convert & Project was blocked in a session that holds the curves of an
\* earlier Conversion
C11_Witness ==
    /\ Is("convert_and_project") /\ lastOp.res = "warned"
    /\ projection_curves # << >>
    /\ OfKind(scene, "stroke") = {}

\* C12: Setup with a number of selected nodes other than one duplicates
\* nothing, hides nothing and records no reference
C12_SetupOnlyWithOne ==
    [][(Was("setup_geometry") /\ Len(lastOp'.arg) # 1)
         => UNCHANGED <<host, session>>]_vars

\* C13: Cancel shows the original again, deletes the duplicated geometry and
\* the temporary plane, does not invoke the split operator, and leaves no
\* reference in the fields of the session
C13_CancelDiscardsSession ==
    [][Was("cancel_operation")
         => /\ duplicated_geo \notin DOMAIN scene'
            /\ temp_plane \notin DOMAIN scene'
            /\ target_geo \in DOMAIN scene' => target_geo \notin hidden'
            /\ Count(trace', "performSplitMeshWithProjectedCurve") = 0
            /\ target_geo' = None /\ duplicated_geo' = None
            /\ temp_plane' = None /\ projection_curve' = None
            /\ projection_curves' = << >>
            /\ original_camera_state' = NoCameraState]_vars

\* C14: Conversion makes reference curves and issues projection calls only
\* in a session whose Paint Activation has succeeded, and Execute Split
\* invokes the split operator only in a session whose Setup and one of whose
\* Conversions have succeeded
C14_StagesInOrder ==
    /\ (Is("convert_and_project")
          /\ Count(trace, "circle") + Count(trace, "polyProjectCurve") > 0)
         => temp_plane # None
    /\ (Is("execute_split")
          /\ Count(trace, "performSplitMeshWithProjectedCurve") > 0)
         => target_geo # None /\ projection_curve # None

\* what a deletion of Finish deletes
DeleteClass(e) ==
    IF e.op = "deleteHistory" THEN "history"
    ELSE IF e.arg = temp_plane THEN "plane"
    ELSE IF EndsWithSplit(e.arg) THEN "split"
    ELSE IF e.arg[1] = "strokeShapeDefaultPaint" THEN "stroke"
    ELSE IF e.arg[1] = "strokeDefaultPaint" THEN "strokeXf"
    ELSE IF e.arg[1] = "projCurve_" THEN "curve"
    ELSE IF e.arg[1] = "curveVarGroup" THEN "group"
    ELSE "other"

Deletions == {i \in 1..Len(trace) : trace[i].op \in {"delete", "deleteHistory"}}

PlaceIn(order, c) == CHOOSE k \in 1..Len(order) : order[k] = c

\* the deletions of the last handler come in the given order
DeletesInOrder(order) ==
    \A i, j \in Deletions :
        i < j => PlaceIn(order, DeleteClass(trace[i])) <= PlaceIn(order, DeleteClass(trace[j]))

\* C15, as claimed: Finish deletes the construction history, the "_split"
\* transforms, the strokes and their transforms, the reference curves, the
\* temporary plane and last the curve-variation groups
C15_FinishOrder ==
    Is("finish_and_cleanup")
        => DeletesInOrder(<<"history", "split", "stroke", "strokeXf", "curve",
                            "plane", "group">>)

\* C15, amended: Finish deletes the construction history, the "_split"
\* transforms, the strokes and their transforms, the reference curves, the
\* curve-variation groups unless kept, and last the temporary plane
C15_FinishOrderOfSource ==
    Is("finish_and_cleanup")
        => DeletesInOrder(<<"history", "split", "stroke", "strokeXf", "curve",
                            "group", "plane">>)

\* Finish has deleted a curve-variation group and the temporary plane
C15_Witness ==
    /\ Is("finish_and_cleanup")
    /\ \E i, j \in Deletions :
          /\ DeleteClass(trace[i]) = "group"
          /\ DeleteClass(trace[j]) = "plane"

C17_FinishKeepsHidden ==
    [][/\ Was("finish_and_cleanup")
          => /\ original_camera_state # NoCameraState
                  => cam'[original_camera_state.camera] = CameraOf(original_camera_state)
             /\ \A n \in DOMAIN scene' : n \in hidden' <=> n \in hidden
       /\ \A n \in hidden \cap DOMAIN scene' :
             n \notin hidden' => Was("cancel_operation") /\ n = target_geo]_vars

\* Finish has put a perspective camera back and left the original hidden
C17_Witness ==
    /\ Is("finish_and_cleanup")
    /\ target_geo \in DOMAIN scene /\ target_geo \in hidden
    /\ original_camera_state # NoCameraState
    /\ ~original_camera_state.orthographic
    /\ ~cam[original_camera_state.camera].ortho

\* the place of the first and of the last call o in the trace tr
FirstCall(tr, o) == CHOOSE i \in 1..Len(tr) : tr[i].op = o /\ \A j \in 1..(i - 1) : tr[j].op # o
LastCall(tr, o) == CHOOSE i \in 1..Len(tr) : tr[i].op = o /\ \A j \in (i + 1)..Len(tr) : tr[j].op # o

\* the three extents of a bounding box <<xmin, ymin, zmin, xmax, ymax, zmax>>
Extents(b) == {b[4] - b[1], b[5] - b[2], b[6] - b[3]}

\* C18: a Paint Activation that succeeds stores the camera's orthographic
\* flag and width as they were before it sets either, sets the flag and a
\* width of 1.5 times the largest extent of the target's bounding box, and
\* makes a plane of that width under that camera
C18_ActivateSnapshotFirst ==
    [][(Was("activate_paint_tool") /\ lastOp'.res = "ok")
         => LET c == original_camera_state'.camera
                p == temp_plane'
            IN  /\ original_camera_state' =
                       [camera |-> c, orthographic |-> cam[c].ortho,
                        orthographicWidth |-> cam[c].width]
                /\ trace'[1].op = "getAttr" /\ trace'[2].op = "getAttr"
                /\ FirstCall(trace', "setAttr") > 2
                /\ cam'[c].ortho
                /\ \E m \in Extents(scene[target_geo].bbox) :
                      /\ \A e \in Extents(scene[target_geo].bbox) : e <= m
                      /\ 2 * cam'[c].width = 3 * m
                /\ p \notin DOMAIN scene /\ p \in DOMAIN scene'
                /\ scene'[p].parent = <<c>>
                /\ Extents(scene'[p].bbox) = {cam'[c].width, 0}
                /\ FirstCall(trace', "polyPlane") > LastCall(trace', "setAttr")]_vars

\* Paint Activation has switched a perspective camera and made a plane of
\* width 12 for a target 4 by 8 by 4
C18_Witness ==
    /\ Is("activate_paint_tool") /\ lastOp.res = "ok"
    /\ ~original_camera_state.orthographic
    /\ original_camera_state.orthographicWidth = 30
    /\ cam["persp"] = [ortho |-> TRUE, width |-> 12]
    /\ temp_plane \in DOMAIN scene
    /\ Extents(scene[temp_plane].bbox) = {12, 0}

\* the settings of the projection calls of the last handler
SettingsUsed == {trace[i].arg[2] : i \in {j \in 1..Len(trace) : trace[j].op = "polyProjectCurve"}}

C20_FinishKeepsDuplicate ==
    [][(Was("finish_and_cleanup") /\ duplicated_geo \in DOMAIN scene)
         => duplicated_geo \in DOMAIN scene']_vars

\* C21: the stored snapshot holds the orthographic flag and width the camera
\* had before the session changed them, also after Activate Paint has run
\* more than once, and Finish and Cancel put the camera back to them
C21_SnapshotIsPreSession ==
    /\ original_camera_state # NoCameraState
         => CameraOf(original_camera_state) = InitialCamera
    /\ ((Is("finish_and_cleanup") \/ Is("cancel_operation"))
          /\ original_camera_state # NoCameraState)
         => cam[original_camera_state.camera] = InitialCamera

\* C22: Finish and Cancel leave every node that was in the scene before the
\* tool was launched in the scene and as it was
C22_OnlySessionNodesDeleted ==
    [][(Was("finish_and_cleanup") \/ Was("cancel_operation"))
         => \A n \in OfOrigin(scene, "pre") :
               n \in DOMAIN scene' /\ scene'[n] = scene[n]]_vars

====
